---- MODULE Spec2Model ----
(***************************************************************************)
(* Chronomancer applet: the AppModel of src/app.rs (timer collection,      *)
(* database handle, suspend inhibitor slot, popup), the asynchronous tasks *)
(* its handlers issue, and the collaborators they talk to (the SQLite      *)
(* timers table, logind, the clock).                                       *)
(* An Option<T> is a sequence: <<>> is None and <<x>> is Some(x).          *)
(***************************************************************************)
EXTENDS Integers, Sequences, FiniteSets, TLC

\* ------------------------------------------------------------------ bounds
MaxTime == 2        \* the clock runs over 0..MaxTime
MaxRowId == 2       \* the highest rowid the table hands out
MaxToggles == 2     \* ToggleStayAwake requests the page emits in one run
MaxInflight == 2    \* tasks and messages not yet handled when the user acts
MaxLen == 2         \* length of the collection when a creation result is handed in
MaxTicks == 3       \* consecutive ticks followed as one run
MaxGap == 1         \* seconds that pass between two clock reads of one call

Durations == {1, 2}

\* ------------------------------------------------------- Timer / TimerType
Suspend == [tag |-> "Suspend"]
Logout == [tag |-> "Logout"]
Shutdown == [tag |-> "Shutdown"]
Reboot == [tag |-> "Reboot"]
UserDefined(text) == [tag |-> "UserDefined", text |-> text]

\* The reserved string of the Reboot kind: models/timer.rs has no Reboot
\* variant, app.rs uses one.
RebootStr == "System Reboot"

as_str(t) ==
    CASE t.tag = "UserDefined" -> t.text
      [] t.tag = "Suspend" -> "System Suspend"
      [] t.tag = "Logout" -> "System Logout"
      [] t.tag = "Shutdown" -> "System Shutdown"
      [] t.tag = "Reboot" -> RebootStr

\* Result<TimerType>: every arm is Ok.
from_str(s) ==
    CASE s = "System Suspend" -> [ok |-> TRUE, type |-> Suspend]
      [] s = "System Logout" -> [ok |-> TRUE, type |-> Logout]
      [] s = "System Shutdown" -> [ok |-> TRUE, type |-> Shutdown]
      [] OTHER -> [ok |-> TRUE, type |-> UserDefined(s)]

\* Timer::new that leaves the duration out of ends_at.
TimerNewNoDuration(clock, created_clock, duration_seconds, timer_type) ==
    [id |-> 0, description |-> as_str(timer_type),
     ends_at |-> clock, created_at |-> created_clock]

\* Timer::new reads the clock twice: clock is what the read for ends_at
\* returns, created_clock what the later read for created_at returns.
Timer_new(clock, created_clock, duration_seconds, timer_type) ==
    [id |-> 0, description |-> as_str(timer_type),
     ends_at |-> clock + duration_seconds, created_at |-> created_clock]

\* What a clock read can return when an earlier read returned clock.
ClockReads(clock) == {c \in clock..(clock + MaxGap) : c <= MaxTime}

\* is_active with the comparison slipped: `now <= self.ends_at`.
IsActiveInclusive(timer, clock) == clock <= timer.ends_at

\* is_active with the deadline taken a second early.
IsActiveEarly(timer, clock) == clock + 1 < timer.ends_at

\* is_active measured against created_at instead of ends_at.
IsActiveSinceCreated(timer, clock) == clock < timer.created_at

is_active(timer, clock) == clock < timer.ends_at

\* ------------------------------------------------------------------- state
VARIABLES
    active_timers,      \* AppModel.active_timers: Vec<Timer>
    database,           \* AppModel.database is Some
    suspend_inhibitor,  \* AppModel.suspend_inhibitor: Option<File>, the lease held
    popup,              \* AppModel.popup is Some
    selected,           \* power_controls.power_buttons.selected: Option<usize>
    now,                \* chrono::Utc::now().timestamp()
    store,              \* the rows of the timers table
    next_id,            \* the rowid the next INSERT is given
    leases,             \* inhibitor leases granted by logind and still open
    next_lease,         \* the next lease logind hands out
    inflight,           \* tasks issued and messages produced, not yet handled
    toggles,            \* ToggleStayAwake requests emitted by the page so far
    last,               \* what the last step did
    run                 \* the ticks handled since the last step that was no tick

vars == <<active_timers, database, suspend_inhibitor, popup, selected, now, store,
          next_id, leases, next_lease, inflight, toggles, last, run>>

\* Rows an earlier run left in the table.
Stored1 == [id |-> 1, description |-> "note", ends_at |-> 1, created_at |-> 0]
InitStores == {{}, {Stored1}}

MaxId(rows) == IF rows = {} THEN 0 ELSE CHOOSE i \in {r.id : r \in rows} :
                                         \A r \in rows : r.id <= i

\* ------------------------------------------------------------ task plumbing
\* An item of inflight is a record with a kind k and a tag n that tells equal
\* items apart.
Tagged(S, x) ==
    LET free == {i \in 1..(Cardinality(S) + 1) : [x EXCEPT !.n = i] \notin S}
    IN [x EXCEPT !.n = CHOOSE i \in free : \A j \in free : i <= j]

RECURSIVE AddAll(_, _)
AddAll(S, xs) == IF xs = <<>> THEN S
                 ELSE AddAll(S \cup {Tagged(S, Head(xs))}, Tail(xs))

Msg(m) == [k |-> "Msg", n |-> 0, msg |-> m]
SetTime(op, time) == [k |-> "SetTime", n |-> 0, op |-> op, time |-> time]
DbInitTask == [k |-> "DbInitTask", n |-> 0]
FetchTask == [k |-> "FetchTask", n |-> 0]
InsertTask(timer) == [k |-> "InsertTask", n |-> 0, timer |-> timer]
DeleteTask(id) == [k |-> "DeleteTask", n |-> 0, id |-> id]
AcquireTask == [k |-> "AcquireTask", n |-> 0]
\* Results: Ok carries the value, Err (ok = FALSE) only an error text.
Created(ok, timer) ==
    [k |-> "Created", n |-> 0, ok |-> ok, timer |-> IF ok THEN <<timer>> ELSE <<>>]
ActiveFetched(ok, timers) ==
    [k |-> "ActiveFetched", n |-> 0, ok |-> ok, timers |-> IF ok THEN timers ELSE <<>>]
InhibitAcquired(ok, lease) ==
    [k |-> "InhibitAcquired", n |-> 0, ok |-> ok, lease |-> IF ok THEN lease ELSE <<>>]

Untag(x) == [x EXCEPT !.n = 0]

\* ------------------------------------------------------------- observation
AcquireKinds == {"AcquireTask", "InhibitAcquired"}

\* Acquisitions asked for whose completion update() has not seen yet.
Pending(S) == {t \in S : t.k \in AcquireKinds}

Pre == [timers |-> active_timers, inhibitor |-> suspend_inhibitor,
        database |-> database, popup |-> popup, selected |-> selected,
        now |-> now, pending |-> Cardinality(Pending(inflight))]

Effect(kind, what, body) == [kind |-> kind, what |-> what, body |-> body]

\* op: the handler; msg: the message it was given; effects: what it did to the
\* outside (messages dispatched, notifications shown, backend calls);
\* issued: the tasks and messages it returned; shown: whether the
\* notifications among the effects reached the desktop (Notification::show
\* returned Ok).
Did(op, msg, effects, issued) ==
    [op |-> op, msg |-> msg, pre |-> Pre, effects |-> effects, issued |-> issued,
     shown |-> TRUE]

NoMsg == [k |-> "None", n |-> 0]

NoRun == [start |-> <<>>, n |-> 0, effects |-> <<>>, deletes |-> <<>>]

\* A timer is expired from the instant now = ends_at.
Expired(timer, clock) == clock >= timer.ends_at

ExpiredAt(timers, clock) == {i \in 1..Len(timers) : Expired(timers[i], clock)}

\* A run of consecutive ticks: the collection it started from, the ticks so
\* far, and what they dispatched and asked to delete. A run starts at a tick
\* that finds an expired timer and is followed for MaxTicks ticks.
TickRun(effects, deletes) ==
    IF (run.n = 0 \/ run.n >= MaxTicks) /\ ExpiredAt(active_timers, now) = {}
    THEN NoRun
    ELSE IF run.n = 0 \/ run.n >= MaxTicks
    THEN [start |-> active_timers, n |-> 1, effects |-> effects, deletes |-> deletes]
    ELSE [start |-> run.start, n |-> run.n + 1,
          effects |-> run.effects \o effects, deletes |-> run.deletes \o deletes]

Observe(op, msg, effects, issued) ==
    /\ last' = Did(op, msg, effects, issued)
    /\ run' = NoRun

\* AppModel::init over a table that holds rows.
InitWith(rows) ==
    /\ active_timers = <<>>
    /\ database = FALSE
    /\ suspend_inhibitor = <<>>
    /\ popup = FALSE
    /\ selected = <<>>
    /\ now = 0
    /\ store = rows
    /\ next_id = MaxId(rows) + 1
    /\ leases = {}
    /\ next_lease = 1
    /\ inflight = {Tagged({}, DbInitTask)}
    /\ toggles = 0
    /\ last = Did("init", NoMsg, <<>>, <<>>)
    /\ run = NoRun

Init == \E rows \in InitStores : InitWith(rows)

\* --------------------------------------------------------------- handle_tick
\* The match on TimerType::from_str(&timer.description): the message pushed to
\* the tick's tasks, or the notification shown on the spot.
TickEffect(timer) ==
    LET r == from_str(timer.description) IN
    IF ~r.ok THEN <<>>
    ELSE CASE r.type.tag = "Suspend" -> <<Effect("PowerMessage", "ExecuteSuspend", "")>>
           [] r.type.tag = "Logout" -> <<Effect("PowerMessage", "ExecuteLogout", "")>>
           [] r.type.tag = "Shutdown" -> <<Effect("PowerMessage", "ExecuteShutdown", "")>>
           [] r.type.tag = "Reboot" -> <<Effect("PowerMessage", "ExecuteReboot", "")>>
           [] r.type.tag = "UserDefined" ->
                <<Effect("Notification", "Timer Finished", r.type.text)>>

\* retain with the predicate inverted: `|t| t.id == timer_id`.
RetainOnly(timers, timer_id) == SelectSeq(timers, LAMBDA t : t.id = timer_id)

\* self.active_timers.retain(|t| t.id != timer_id)
retain(timers, timer_id) == SelectSeq(timers, LAMBDA t : t.id # timer_id)

\* The loop without its break.
TickNeverBreaks(db) == FALSE

\* Whether the loop body leaves the loop after handling an expired timer:
\* the break sits inside `if let Some(database)`.
TickBreaks(db) == db

\* The deletion scheduled outside `if let Some(database)`.
TickAlwaysDeletes(deletes, timer_id, db) == Append(deletes, timer_id)

\* The deletions scheduled once timer_id is handled: Timer::delete_by_id is
\* pushed inside `if let Some(database)`.
TickDeletes(deletes, timer_id, db) == IF db THEN Append(deletes, timer_id) ELSE deletes

\* The loop over self.active_timers.clone(): snapshot is what is left of the
\* clone, timers the live collection, effects and deletes what was done so far.
RECURSIVE TickScan(_, _, _, _, _, _)
TickScan(snapshot, timers, effects, deletes, db, clock) ==
    IF snapshot = <<>>
    THEN [timers |-> timers, effects |-> effects, deletes |-> deletes]
    ELSE LET timer == Head(snapshot) IN
         IF is_active(timer, clock)
         THEN TickScan(Tail(snapshot), timers, effects, deletes, db, clock)
         ELSE LET effects2 == effects \o TickEffect(timer)
                  timers2 == retain(timers, timer.id)
                  deletes2 == TickDeletes(deletes, timer.id, db)
              IN IF TickBreaks(db)
                 THEN [timers |-> timers2, effects |-> effects2, deletes |-> deletes2]
                 ELSE TickScan(Tail(snapshot), timers2, effects2, deletes2, db, clock)

RECURSIVE EffectTasks(_)
EffectTasks(effects) ==
    IF effects = <<>> THEN <<>>
    ELSE LET rest == EffectTasks(Tail(effects)) IN
         IF Head(effects).kind = "PowerMessage"
         THEN <<Msg(Head(effects).what)>> \o rest
         ELSE rest

\* The tick's tasks without the deletions.
NoDeleteTasks(ids) == <<>>

DeleteTasks(ids) == [i \in 1..Len(ids) |-> DeleteTask(ids[i])]

\* handle_tick: rest is what stays in flight besides the tasks this tick returns.
handle_tick(rest) ==
    LET r == TickScan(active_timers, active_timers, <<>>, <<>>, database, now)
        issued == EffectTasks(r.effects) \o DeleteTasks(r.deletes)
    IN /\ active_timers' = r.timers
       /\ inflight' = AddAll(rest, issued)
       /\ \E shown \in BOOLEAN :
             /\ ~shown => \E i \in 1..Len(r.effects) : r.effects[i].kind = "Notification"
             /\ last' = [Did("handle_tick", NoMsg, r.effects, issued)
                           EXCEPT !.shown = shown]
       /\ run' = TickRun(r.effects, r.deletes)
       /\ UNCHANGED <<database, suspend_inhibitor, popup, selected, now, store,
                      next_id, leases, next_lease, toggles>>

\* ------------------------------------------------------------ toggle_popup
toggle_popup(p) == ~p

\* ---------------------------------------------------- handle_power_message
\* get_suspend_inhibitor(): the task that asks logind for an inhibitor lease.
get_suspend_inhibitor == <<AcquireTask>>

\* ToggleStayAwake guarded against an acquisition already under way.
ToggleGuarded == IF Pending(inflight) # {} THEN <<>> ELSE get_suspend_inhibitor

\* What ToggleStayAwake returns when no lease is held.
ToggleAcquire == get_suspend_inhibitor

\* PowerMessage::ToggleStayAwake
ToggleStayAwake(m, rest) ==
    /\ m.k = "Msg" /\ m.msg = "ToggleStayAwake"
    /\ IF suspend_inhibitor # <<>>
       THEN \* release_suspend_inhibit(inhibitor), then close_task = toggle_popup()
            /\ suspend_inhibitor' = <<>>
            /\ leases' = leases \ {suspend_inhibitor[1]}
            /\ popup' = toggle_popup(popup)
            /\ inflight' = rest
            /\ Observe("ToggleStayAwake", Untag(m), <<>>, <<>>)
       ELSE \* return AppModel::get_suspend_inhibitor()
            /\ inflight' = AddAll(rest, ToggleAcquire)
            /\ Observe("ToggleStayAwake", Untag(m), <<>>, ToggleAcquire)
            /\ UNCHANGED <<suspend_inhibitor, leases, popup>>
    /\ UNCHANGED <<active_timers, database, selected, now, store, next_id,
                   next_lease, toggles>>

Held(slot) == {slot[i] : i \in 1..Len(slot)}

\* The slot after InhibitAcquired(Ok(file)): self.suspend_inhibitor = Some(file)
StoreLease(slot, lease) == lease

\* The match on the result with the Err arm clearing the slot.
InhibitResultTaken(slot, m) == m.lease

\* The slot after the match on Arc::try_unwrap(result): Ok(Ok(file)) stores
\* the file, Ok(Err(err)) only logs.
InhibitResult(slot, m) == IF m.ok THEN StoreLease(slot, m.lease) ELSE slot

\* InhibitAcquired that keeps the File of the slot it overwrites open.
InhibitAcquiredLeaks(m, rest) ==
    /\ m.k = "InhibitAcquired"
    /\ suspend_inhibitor' = InhibitResult(suspend_inhibitor, m)
    /\ inflight' = rest
    /\ Observe("InhibitAcquired", Untag(m), <<>>, <<>>)
    /\ UNCHANGED <<active_timers, database, popup, selected, now, store, next_id,
                   leases, next_lease, toggles>>

\* PowerMessage::InhibitAcquired(result); the File a slot held is closed when
\* the slot is overwritten.
InhibitAcquiredMsg(m, rest) ==
    /\ m.k = "InhibitAcquired"
    /\ suspend_inhibitor' = InhibitResult(suspend_inhibitor, m)
    /\ leases' = leases \ (Held(suspend_inhibitor) \ Held(suspend_inhibitor'))
    /\ inflight' = rest
    /\ Observe("InhibitAcquired", Untag(m), <<>>, <<>>)
    /\ UNCHANGED <<active_timers, database, popup, selected, now, store, next_id,
                   next_lease, toggles>>

TimerTypeOf(op) ==
    CASE op = "Suspend" -> Suspend
      [] op = "Shutdown" -> Shutdown
      [] op = "Logout" -> Logout
      [] op = "Reboot" -> Reboot

NotificationTitle(op) ==
    CASE op = "Suspend" -> "Suspend Timer Set"
      [] op = "Shutdown" -> "Shutdown Timer Set"
      [] op = "Logout" -> "Logout Timer Set"
      [] op = "Reboot" -> "Reboot Timer Set"

\* PowerMessage::Set<op>Time(time): the inhibitor task is built and dropped
\* (let _inhibitor_task = ...), then create_power_timer.
SetTimeMsg(m, rest) ==
    /\ m.k = "SetTime"
    /\ IF ~database
       THEN \* create_power_timer: "Database not yet available"
            /\ inflight' = rest
            /\ Observe("SetTime", Untag(m), <<>>, <<>>)
            /\ UNCHANGED <<popup, now>>
       ELSE \E created_clock \in ClockReads(now) :
            LET timer == Timer_new(now, created_clock, m.time, TimerTypeOf(m.op))
                issued == <<InsertTask(timer)>>
            IN /\ popup' = toggle_popup(popup)
               /\ now' = created_clock
               /\ inflight' = AddAll(rest, issued)
               /\ Observe("SetTime", Untag(m),
                              <<Effect("Notification", NotificationTitle(m.op), "")>>,
                              issued)
    /\ UNCHANGED <<active_timers, database, suspend_inhibitor, selected, store,
                   next_id, leases, next_lease, toggles>>

ExecuteMethod(msg) ==
    CASE msg = "ExecuteSuspend" -> "Suspend"
      [] msg = "ExecuteShutdown" -> "PowerOff"
      [] msg = "ExecuteLogout" -> "TerminateSession"
      [] msg = "ExecuteReboot" -> "Reboot"

ExecuteMsgs == {"ExecuteSuspend", "ExecuteShutdown", "ExecuteLogout", "ExecuteReboot"}

\* Execute<op> that sends itself again when the logind call fails.
ExecuteRetries(m, rest) ==
    /\ m.k = "Msg" /\ m.msg \in ExecuteMsgs
    /\ \E ok \in BOOLEAN :
          /\ inflight' = IF ok THEN rest ELSE AddAll(rest, <<Msg(m.msg)>>)
          /\ Observe("Execute", Untag(m),
                      <<Effect("BackendCall", ExecuteMethod(m.msg),
                               IF ok THEN "Ok" ELSE "Err")>>,
                      IF ok THEN <<>> ELSE <<Msg(m.msg)>>)
    /\ UNCHANGED <<active_timers, database, suspend_inhibitor, popup, selected, now,
                   store, next_id, leases, next_lease, toggles>>

\* PowerMessage::Execute<op>: Task::perform(resources::execute_system_<op>()),
\* whose logind call succeeds or fails; the result is logged and becomes
\* Action::None.
ExecuteMsg(m, rest) ==
    /\ m.k = "Msg" /\ m.msg \in ExecuteMsgs
    /\ inflight' = rest
    /\ \E ok \in BOOLEAN :
          Observe("Execute", Untag(m),
                      <<Effect("BackendCall", ExecuteMethod(m.msg),
                               IF ok THEN "Ok" ELSE "Err")>>, <<>>)
    /\ UNCHANGED <<active_timers, database, suspend_inhibitor, popup, selected, now,
                   store, next_id, leases, next_lease, toggles>>

\* --------------------------------------------------- handle_timer_message
\* The new timer put in front of the collection.
PushFront(timers, timer) == <<timer>> \o timers

\* self.active_timers.push(timer)
push(timers, timer) == Append(timers, timer)

\* TimerMessage::Created(result)
CreatedMsg(m, rest) ==
    /\ m.k = "Created"
    /\ active_timers' = IF m.ok THEN push(active_timers, m.timer[1]) ELSE active_timers
    /\ inflight' = rest
    /\ Observe("Created", Untag(m), <<>>, <<>>)
    /\ UNCHANGED <<database, suspend_inhibitor, popup, selected, now, store, next_id,
                   leases, next_lease, toggles>>

\* The fetched timers added to the collection instead of replacing it.
FetchedExtends(timers, fetched) == timers \o fetched

\* self.active_timers = timers
Fetched(timers, fetched) == fetched

\* TimerMessage::ActiveFetched(result)
ActiveFetchedMsg(m, rest) ==
    /\ m.k = "ActiveFetched"
    /\ active_timers' = IF m.ok THEN Fetched(active_timers, m.timers) ELSE active_timers
    /\ inflight' = rest
    /\ Observe("ActiveFetched", Untag(m), <<>>, <<>>)
    /\ UNCHANGED <<database, suspend_inhibitor, popup, selected, now, store, next_id,
                   leases, next_lease, toggles>>

\* ------------------------------------------------ handle_database_message
DbInitialized(ok) == [k |-> "DbInitialized", n |-> 0, ok |-> ok]

\* The database handler starting the fetch after a failed initialization too.
DatabaseMsgFetchesAnyway(m, rest) ==
    /\ m.k = "DbInitialized"
    /\ database' = IF m.ok THEN TRUE ELSE database
    /\ inflight' = AddAll(rest, <<FetchTask>>)
    /\ Observe("Database", Untag(m), <<>>, <<FetchTask>>)
    /\ UNCHANGED <<active_timers, suspend_inhibitor, popup, selected, now, store,
                   next_id, leases, next_lease, toggles>>

\* DatabaseMessage::Initialized(Ok(db)) and DatabaseMessage::FailedToInitialize
DatabaseMsg(m, rest) ==
    /\ m.k = "DbInitialized"
    /\ database' = IF m.ok THEN TRUE ELSE database
    /\ inflight' = IF m.ok THEN AddAll(rest, <<FetchTask>>) ELSE rest
    /\ Observe("Database", Untag(m), <<>>, IF m.ok THEN <<FetchTask>> ELSE <<>>)
    /\ UNCHANGED <<active_timers, suspend_inhibitor, popup, selected, now, store,
                   next_id, leases, next_lease, toggles>>

\* --------------------------------------- handle_power_controls_message, Page
\* Message::ClosePopup: close_task = self.toggle_popup()
ClosePopupMsg(m, rest) ==
    /\ m.k = "Msg" /\ m.msg = "ClosePopup"
    /\ popup' = toggle_popup(popup)
    /\ inflight' = rest
    /\ Observe("ClosePopup", Untag(m), <<>>, <<>>)
    /\ UNCHANGED <<active_timers, database, suspend_inhibitor, selected, now, store,
                   next_id, leases, next_lease, toggles>>

\* AppModel::update for a message that a task produced or that is handed in.
Update(m, rest) ==
    \/ ToggleStayAwake(m, rest)
    \/ InhibitAcquiredMsg(m, rest)
    \/ SetTimeMsg(m, rest)
    \/ ExecuteMsg(m, rest)
    \/ CreatedMsg(m, rest)
    \/ ActiveFetchedMsg(m, rest)
    \/ DatabaseMsg(m, rest)
    \/ ClosePopupMsg(m, rest)

MessageKinds == {"Msg", "SetTime", "Created", "ActiveFetched", "InhibitAcquired"}

\* A message in flight reaches update().
HandleMsg == \E m \in inflight : m.k \in MessageKinds /\ Update(m, inflight \ {m})

\* Message::Tick, sent by the 1 s interval subscription.
Tick == handle_tick(inflight)

\* The wall clock moves on.
ClockTick ==
    /\ now < MaxTime
    /\ now' = now + 1
    /\ Observe("clock", NoMsg, <<>>, <<>>)
    /\ UNCHANGED <<active_timers, database, suspend_inhibitor, popup, selected, store,
                   next_id, leases, next_lease, inflight, toggles>>

\* -------------------------------------------------------------- the user
CanAct == Cardinality(inflight) < MaxInflight

\* Message::TogglePopup: the panel icon is pressed.
TogglePopup ==
    /\ popup' = toggle_popup(popup)
    /\ Observe("TogglePopup", NoMsg, <<>>, <<>>)
    /\ UNCHANGED <<active_timers, database, suspend_inhibitor, selected, now, store,
                   next_id, leases, next_lease, inflight, toggles>>

StayAwakeIndex == 0

from_index(index) ==
    CASE index = 0 -> "StayAwake"
      [] index = 2 -> "Logout"
      [] index = 3 -> "Reboot"
      [] index = 4 -> "Shutdown"
      [] OTHER -> "Suspend"

RadioIndexes == 0..4

\* Page::handle_radio_selection(new_index); the radio row is on the popup.
RadioOptionSelected(new_index) ==
    LET previous == selected
        issued == IF from_index(new_index) = "StayAwake"
                  THEN <<Msg("ToggleStayAwake"), Msg("ClosePopup")>>
                  ELSE IF previous = <<StayAwakeIndex>>
                       THEN <<Msg("ToggleStayAwake")>>
                       ELSE <<>>
    IN /\ popup /\ CanAct
       /\ issued # <<>> => toggles < MaxToggles
       /\ selected' = IF from_index(new_index) = "StayAwake" /\ previous = <<StayAwakeIndex>>
                      THEN <<>>
                      ELSE <<new_index>>
       /\ toggles' = IF issued # <<>> THEN toggles + 1 ELSE toggles
       /\ inflight' = AddAll(inflight, issued)
       /\ Observe("RadioOptionSelected", NoMsg, <<>>, issued)
       /\ UNCHANGED <<active_timers, database, suspend_inhibitor, popup, now, store,
                      next_id, leases, next_lease>>

\* Page::handle_form_submit with a valid input that amounts to `value` seconds;
\* the form is shown when an operation other than stay-awake is selected.
FormSubmitPressed(value) ==
    /\ popup /\ CanAct
    /\ next_id + Cardinality({t \in inflight : t.k \in {"SetTime", "InsertTask"}}) <= MaxRowId
    /\ selected # <<>> /\ selected[1] > 0
    /\ inflight' = AddAll(inflight, <<SetTime(from_index(selected[1]), value)>>)
    /\ Observe("FormSubmitPressed", NoMsg, <<>>,
                   <<SetTime(from_index(selected[1]), value)>>)
    /\ UNCHANGED <<active_timers, database, suspend_inhibitor, popup, selected, now,
                   store, next_id, leases, next_lease, toggles>>

\* ----------------------------------------------------- the tasks, running
\* SQLiteDatabase::new() ends; its result reaches handle_database_message.
DbInitDone ==
    \E t \in inflight, ok \in BOOLEAN :
        /\ t.k = "DbInitTask"
        /\ DatabaseMsg(DbInitialized(ok), inflight \ {t})

RECURSIVE OrderByEndsAt(_)
OrderByEndsAt(rows) ==
    IF rows = {} THEN <<>>
    ELSE LET first == CHOOSE r \in rows : \A q \in rows :
                          \/ r.ends_at < q.ends_at
                          \/ r.ends_at = q.ends_at /\ r.id <= q.id
         IN <<first>> \o OrderByEndsAt(rows \ {first})

\* get_all_active that also returns the timers ending at the very second.
GetAllActiveInclusive(rows, clock) == OrderByEndsAt({r \in rows : r.ends_at >= clock})

\* SELECT * FROM timers WHERE ends_at > ? ORDER BY ends_at ASC
get_all_active(rows, clock) == OrderByEndsAt({r \in rows : r.ends_at > clock})

\* Timer::get_all_active runs against the table, or fails.
FetchRun ==
    \E t \in inflight, ok \in BOOLEAN :
        /\ t.k = "FetchTask"
        /\ LET result == ActiveFetched(ok, get_all_active(store, now))
           IN /\ inflight' = AddAll(inflight \ {t}, <<result>>)
              /\ Observe("FetchTask", Untag(t), <<>>, <<result>>)
        /\ UNCHANGED <<active_timers, database, suspend_inhibitor, popup, selected, now,
                       store, next_id, leases, next_lease, toggles>>

\* Timer::insert runs: the row is stored under a new id and read back, or the
\* INSERT fails.
InsertRun ==
    \E t \in inflight, ok \in BOOLEAN :
        /\ t.k = "InsertTask"
        /\ LET row == [t.timer EXCEPT !.id = next_id]
               result == Created(ok, row)
           IN /\ store' = IF ok THEN store \cup {row} ELSE store
              /\ next_id' = IF ok THEN next_id + 1 ELSE next_id
              /\ inflight' = AddAll(inflight \ {t}, <<result>>)
              /\ Observe("InsertTask", Untag(t), <<>>, <<result>>)
        /\ UNCHANGED <<active_timers, database, suspend_inhibitor, popup, selected, now,
                       leases, next_lease, toggles>>

\* Timer::delete_by_id runs, or fails; its result becomes Action::None.
DeleteRun ==
    \E t \in inflight, ok \in BOOLEAN :
        /\ t.k = "DeleteTask"
        /\ store' = IF ok THEN {r \in store : r.id # t.id} ELSE store
        /\ inflight' = inflight \ {t}
        /\ Observe("DeleteTask", Untag(t), <<>>, <<>>)
        /\ UNCHANGED <<active_timers, database, suspend_inhibitor, popup, selected, now,
                       next_id, leases, next_lease, toggles>>

\* resources::acquire_suspend_inhibit runs: logind hands out a lease, or fails.
AcquireRun ==
    \E t \in inflight, ok \in BOOLEAN :
        /\ t.k = "AcquireTask"
        /\ LET result == InhibitAcquired(ok, <<next_lease>>)
           IN /\ leases' = IF ok THEN leases \cup {next_lease} ELSE leases
              /\ next_lease' = IF ok THEN next_lease + 1 ELSE next_lease
              /\ inflight' = AddAll(inflight \ {t}, <<result>>)
              /\ Observe("AcquireTask", Untag(t), <<>>, <<result>>)
        /\ UNCHANGED <<active_timers, database, suspend_inhibitor, popup, selected, now,
                       store, next_id, toggles>>

\* ------------------------------------------------------- the running applet
\* The timer flow: the startup fetch, timers set from the form, ticks.
NextTimers ==
    \/ Tick
    \/ ClockTick
    \/ HandleMsg
    \/ DbInitDone
    \/ FetchRun
    \/ InsertRun
    \/ DeleteRun
    \/ TogglePopup
    \/ \E i \in RadioIndexes \ {StayAwakeIndex} : RadioOptionSelected(i)
    \/ \E v \in Durations : FormSubmitPressed(v)

SpecTimers == Init /\ [][NextTimers]_vars

\* The stay-awake flow: radio selections, acquisitions, their completions,
\* beside the startup fetch and the ticks.
NextInhibitor ==
    \/ Tick
    \/ ClockTick
    \/ HandleMsg
    \/ DbInitDone
    \/ FetchRun
    \/ DeleteRun
    \/ AcquireRun
    \/ TogglePopup
    \/ \E i \in RadioIndexes : RadioOptionSelected(i)

SpecInhibitor == Init /\ [][NextInhibitor]_vars

Next == NextTimers \/ NextInhibitor

Spec == Init /\ [][Next]_vars

\* ------------------------------------------- update() driven from outside
\* Timers handed to update() in a creation or fetch result, as the unit tests
\* of app.rs hand them in.
Given1 == [id |-> 11, description |-> "System Logout", ends_at |-> 1, created_at |-> 0]
Given2 == [id |-> 12, description |-> "System Shutdown", ends_at |-> 1, created_at |-> 0]
Given3 == [id |-> 13, description |-> RebootStr, ends_at |-> 2, created_at |-> 0]
GivenTimers == {Given1, Given2, Given3}

\* The messages waiting for update().
Queued == {t \in inflight : t.k \in MessageKinds}

\* app.update(Message::TimerMessage(..)) with a result built by the caller;
\* messages are handled in the order they arrive, so the result is handled
\* after the messages queued before it.
Deliver ==
    /\ Queued = {}
    /\ CanAct
    /\ \/ \E t \in GivenTimers, ok \in BOOLEAN :
             /\ Len(active_timers) < MaxLen
             /\ CreatedMsg(Created(ok, t), inflight)
       \/ \E t \in GivenTimers, ok \in BOOLEAN :
             ActiveFetchedMsg(ActiveFetched(ok, <<t>>), inflight)

NextUpdate ==
    \/ Deliver
    \/ Tick
    \/ ClockTick
    \/ HandleMsg
    \/ DbInitDone
    \/ FetchRun
    \/ DeleteRun

SpecUpdate == Init /\ [][NextUpdate]_vars

\* ------------------------------------------ the models, called directly
\* The strings a description is taken from.
Texts == {"System Suspend", "System Logout", "System Shutdown", RebootStr, "note", ""}

TimerTypes == {Suspend, Logout, Shutdown, Reboot} \cup {UserDefined(s) : s \in Texts}

\* Timer::new(duration_seconds, false, &timer_type), as tests/timer_integration.rs
\* calls it; the result is in last.effects.
NewTimer(duration_seconds, timer_type) ==
    \E created_clock \in ClockReads(now) :
        /\ now' = created_clock
        /\ last' = Did("Timer::new",
                       [k |-> "Timer::new", n |-> 0, time |-> duration_seconds,
                        type |-> timer_type],
                       <<Timer_new(now, created_clock, duration_seconds, timer_type)>>,
                       <<>>)
        /\ run' = NoRun
        /\ UNCHANGED <<active_timers, database, suspend_inhibitor, popup, selected,
                       store, next_id, leases, next_lease, inflight, toggles>>

\* timer.is_active() on the timer made last, at that moment or later; the
\* time of the call and the answer are in last.issued.
IsActiveCall ==
    /\ last.op \in {"Timer::new", "is_active"}
    /\ \E clock \in now..MaxTime :
          /\ now' = clock
          /\ last' = [last EXCEPT !.op = "is_active",
                                  !.issued = <<[at |-> clock,
                                               active |-> is_active(last.effects[1], clock)]>>]
    /\ UNCHANGED <<active_timers, database, suspend_inhibitor, popup, selected,
                   store, next_id, leases, next_lease, inflight, toggles, run>>

\* TimerType::from_str(s); the result is in last.effects.
Classify(s) ==
    /\ last' = Did("from_str", [k |-> "from_str", n |-> 0, s |-> s], <<from_str(s)>>, <<>>)
    /\ run' = NoRun
    /\ UNCHANGED <<active_timers, database, suspend_inhibitor, popup, selected, now,
                   store, next_id, leases, next_lease, inflight, toggles>>

\* The results a fetch is handed in with: up to MaxLen of the given timers.
RECURSIVE SeqsUpTo(_, _)
SeqsUpTo(S, n) ==
    IF n = 0 THEN {<<>>}
    ELSE LET shorter == SeqsUpTo(S, n - 1)
         IN shorter \cup {Append(q, x) : q \in shorter, x \in S}

\* app.update(Message::TimerMessage(TimerMessage::ActiveFetched(..))) with a
\* list built by the caller.
DeliverFetched ==
    \E timers \in SeqsUpTo(GivenTimers, MaxLen), ok \in BOOLEAN :
        ActiveFetchedMsg(ActiveFetched(ok, timers), inflight)

NextDirect ==
    \/ \E d \in Durations, t \in TimerTypes : NewTimer(d, t)
    \/ IsActiveCall
    \/ \E s \in Texts : Classify(s)
    \/ DeliverFetched

SpecDirect == Init /\ [][NextDirect]_vars

\* ----------------------------------------------- timers set, handler level
\* The operations a timer is set for here: the Suspend, Shutdown and Logout
\* arms of handle_power_message differ only in the strings they pass on, the
\* Reboot arm passes the kind models/timer.rs does not have.
SetOps == {"Suspend", "Reboot"}

SetTimes == {1}

\* A row an earlier run left in the table, still a while from its deadline.
Stored2 == [id |-> 1, description |-> "note", ends_at |-> 2, created_at |-> 0]

InitCreate == InitWith({Stored2})

\* app.update(Message::PowerControlsMessage(Set<op>Time(time))): the message
\* the form emits on submit, handed to update() when nothing but the startup
\* fetch is under way.
DeliverSetTime ==
    /\ \A t \in inflight : t.k = "FetchTask"
    /\ next_id <= MaxRowId
    /\ \E op \in SetOps, time \in SetTimes :
          SetTimeMsg(SetTime(op, time), inflight)

\* Timers set while the startup fetch, the insertions, the ticks and the
\* deletions run.
NextCreate ==
    \/ DeliverSetTime
    \/ Tick
    \/ ClockTick
    \/ HandleMsg
    \/ DbInitDone
    \/ FetchRun
    \/ InsertRun
    \/ DeleteRun

SpecCreate == InitCreate /\ [][NextCreate]_vars

\* -------------------------------------------- the form of the power page
\* i32::MAX
I32Max == 2147483647

I32Min == -I32Max - 1

\* x + y in i32 arithmetic that wraps around.
WrapAdd(x, y) ==
    IF x > 0 /\ y > I32Max - x THEN (x - I32Max - 1) + (y - I32Max - 1)
    ELSE IF x < 0 /\ y < I32Min - x THEN (x + I32Max + 1) + (y + I32Max + 1)
    ELSE x + y

\* x * m in i32 arithmetic that wraps around, for m >= 0.
RECURSIVE WrapMul(_, _)
WrapMul(x, m) ==
    IF m = 0 THEN 0
    ELSE LET half == WrapMul(x, m \div 2)
             twice == WrapAdd(half, half)
         IN IF m % 2 = 1 THEN WrapAdd(twice, x) ELSE twice

\* Whether x * m leaves the range of i32, for x > 0 and m > 0.
MulOverflows(x, m) == x > I32Max \div m

Digits == {"0", "1", "2", "3", "4", "5", "6", "7", "8", "9"}

DigitValue(c) ==
    CASE c = "0" -> 0 [] c = "1" -> 1 [] c = "2" -> 2 [] c = "3" -> 3 [] c = "4" -> 4
      [] c = "5" -> 5 [] c = "6" -> 6 [] c = "7" -> 7 [] c = "8" -> 8 [] c = "9" -> 9

\* The digits of a number, read left to right on top of acc; negative for a
\* number behind a minus sign. Leaving the range of i32 is an error.
RECURSIVE ParseDigits(_, _, _)
ParseDigits(chars, acc, negative) ==
    IF chars = <<>> THEN [ok |-> TRUE, value |-> acc]
    ELSE IF Head(chars) \notin Digits THEN [ok |-> FALSE, value |-> 0]
    ELSE LET d == DigitValue(Head(chars)) IN
         IF negative
         THEN IF acc < (I32Min + d) \div 10 + (IF (I32Min + d) % 10 = 0 THEN 0 ELSE 1)
              THEN [ok |-> FALSE, value |-> 0]
              ELSE ParseDigits(Tail(chars), acc * 10 - d, negative)
         ELSE IF acc > (I32Max - d) \div 10
              THEN [ok |-> FALSE, value |-> 0]
              ELSE ParseDigits(Tail(chars), acc * 10 + d, negative)

\* str::parse::<i32>: an optional sign, then at least one digit. A string is
\* the sequence of its characters.
ParseI32(chars) ==
    IF chars = <<>> THEN [ok |-> FALSE, value |-> 0]
    ELSE IF Head(chars) \in {"+", "-"}
    THEN IF Tail(chars) = <<>> THEN [ok |-> FALSE, value |-> 0]
         ELSE ParseDigits(Tail(chars), 0, Head(chars) = "-")
    ELSE ParseDigits(chars, 0, FALSE)

\* PowerForm::validate_input
validate_input(input_value) ==
    ParseI32(input_value).ok /\ ParseI32(input_value).value > 0

TimeUnits == {"Seconds", "Minutes", "Hours", "Days"}

to_seconds_multiplier(unit) ==
    CASE unit = "Seconds" -> 1
      [] unit = "Minutes" -> 60
      [] unit = "Hours" -> 3600
      [] unit = "Days" -> 86400

\* PowerForm::clear
clear(form) == [input_value |-> <<>>, time_unit |-> "Seconds"]

\* The message handle_form_submit returns for the selected option.
SubmitMessage(sel, value) ==
    IF sel = <<>> \/ from_index(sel[1]) = "StayAwake" THEN <<>>
    ELSE <<SetTime(from_index(sel[1]), value)>>

\* Page::handle_form_submit on a page whose form holds `form` and whose radio
\* row has `sel` selected. The multiplication is the i32 one: where the
\* product leaves i32 it panics in a build with overflow checks (checks) and
\* wraps around in a build without.
handle_form_submit(form, sel, checks) ==
    IF ~validate_input(form.input_value)
    THEN [form |-> clear(form), issued |-> <<>>, panic |-> FALSE]
    ELSE LET parsed == ParseI32(form.input_value).value
             multiplier == to_seconds_multiplier(form.time_unit)
         IN IF checks /\ MulOverflows(parsed, multiplier)
            THEN [form |-> form, issued |-> <<>>, panic |-> TRUE]
            ELSE [form |-> form, issued |-> SubmitMessage(sel, WrapMul(parsed, multiplier)),
                  panic |-> FALSE]

\* What is typed into the form, as far as FormTextChanged lets it in, and what
\* a caller can put into input_value directly.
FormInputs ==
    { <<>>, <<"0">>, <<"-", "5">>, <<"a">>, <<"1">>, <<"2">>, <<"6", "0">>,
      <<"2", "4", "8", "5", "5">>, <<"2", "4", "8", "5", "6">>,
      <<"5", "9", "6", "5", "2", "3">>, <<"5", "9", "6", "5", "2", "4">>,
      <<"3", "5", "7", "9", "1", "3", "9", "4">>,
      <<"3", "5", "7", "9", "1", "3", "9", "5">>,
      <<"2", "1", "4", "7", "4", "8", "3", "6", "4", "7">>,
      <<"2", "1", "4", "7", "4", "8", "3", "6", "4", "8">> }

Selections == {<<>>} \cup {<<i>> : i \in RadioIndexes}

\* page.update(Message::FormSubmitPressed) on a page the caller has just set
\* up; the form as it is left and whether the call panicked are in
\* last.effects, the messages returned in last.issued.
SubmitForm(form, sel, checks) ==
    LET r == handle_form_submit(form, sel, checks) IN
    /\ last.op = "init"
    /\ selected' = sel
    /\ last' = Did("FormSubmitPressed",
                   [k |-> "FormSubmitPressed", n |-> 0, form |-> form, selected |-> sel],
                   <<[form |-> r.form, panic |-> r.panic]>>, r.issued)
    /\ run' = NoRun
    /\ UNCHANGED <<active_timers, database, suspend_inhibitor, popup, now, store,
                   next_id, leases, next_lease, inflight, toggles>>

NextForm ==
    \E input \in FormInputs, unit \in TimeUnits, sel \in Selections, checks \in BOOLEAN :
        SubmitForm([input_value |-> input, time_unit |-> unit], sel, checks)

SpecForm == Init /\ [][NextForm]_vars

\* ================================================================= claims
ExpiredIds(timers, clock) == {timers[i].id : i \in ExpiredAt(timers, clock)}

Least(S) == CHOOSE i \in S : \A j \in S : i <= j

\* The first expired timer, in collection order.
FirstExpired(timers, clock) == timers[Least(ExpiredAt(timers, clock))]

\* The collection without its entry at index i.
Without(timers, i) == SubSeq(timers, 1, i - 1) \o SubSeq(timers, i + 1, Len(timers))

DistinctIds(timers) ==
    \A i, j \in 1..Len(timers) : timers[i].id = timers[j].id => i = j

TickDone == last.op = "handle_tick"

\* The deletion requests the last step issued, in order.
DeleteRequests == SelectSeq(last.issued, LAMBDA t : t.k = "DeleteTask")

\* The ids the last tick took out of the collection.
RemovedIds ==
    {last.pre.timers[i].id : i \in 1..Len(last.pre.timers)}
        \ {active_timers[i].id : i \in 1..Len(active_timers)}

\* C1, as claimed: whatever the collection and whether or not the database is
\* initialized, one tick dispatches at most one effect, removes at most one
\* timer and issues at most one deletion request.
C1_AtMostOnePerTick ==
    TickDone =>
        /\ Len(last.effects) <= 1
        /\ Len(last.pre.timers) - Len(active_timers) <= 1
        /\ Len(DeleteRequests) <= 1

\* C1, amended: one tick issues at most one deletion request; with the
\* database available it dispatches at most one effect and removes the
\* entries of at most one timer id; with the database not initialized it
\* issues no deletion request and goes on scanning: it dispatches one effect
\* per expired entry and leaves no expired timer in the collection.
C1_Amended ==
    TickDone =>
        /\ Len(DeleteRequests) <= 1
        /\ last.pre.database =>
              /\ Len(last.effects) <= 1
              /\ Cardinality(RemovedIds) <= 1
        /\ ~last.pre.database =>
              /\ DeleteRequests = <<>>
              /\ Len(last.effects) = Cardinality(ExpiredAt(last.pre.timers, last.pre.now))
              /\ ExpiredAt(active_timers, last.pre.now) = {}

\* C1 witness: a tick with the database available and two timers expired.
C1_Witness ==
    /\ TickDone
    /\ last.pre.database
    /\ Cardinality(ExpiredIds(last.pre.timers, last.pre.now)) >= 2
    /\ Len(last.effects) = 1

\* C2, as claimed: with two or more expired timers a tick removes exactly the
\* first expired entry, keeps every other entry in order, and issues one
\* deletion request, for that timer's id.
C2_RemovesFirstExpired ==
    (TickDone /\ Cardinality(ExpiredAt(last.pre.timers, last.pre.now)) >= 2) =>
        LET i == Least(ExpiredAt(last.pre.timers, last.pre.now)) IN
        /\ active_timers = Without(last.pre.timers, i)
        /\ DeleteRequests = <<DeleteTask(last.pre.timers[i].id)>>

\* C2, amended: with the database available and two or more expired entries,
\* a tick removes every entry that carries the id of the first expired timer
\* (one entry when ids are distinct), keeps all other entries in order, and
\* issues one deletion request, for that id.
C2_Amended ==
    (/\ TickDone
     /\ last.pre.database
     /\ Cardinality(ExpiredAt(last.pre.timers, last.pre.now)) >= 2) =>
        LET first == FirstExpired(last.pre.timers, last.pre.now) IN
        /\ active_timers = SelectSeq(last.pre.timers, LAMBDA t : t.id # first.id)
        /\ DistinctIds(last.pre.timers) =>
              active_timers = Without(last.pre.timers,
                                      Least(ExpiredAt(last.pre.timers, last.pre.now)))
        /\ DeleteRequests = <<DeleteTask(first.id)>>

\* C2 witness: [T1 expired, T2 expired] became [T2] with the database available.
C2_Witness ==
    /\ TickDone
    /\ last.pre.database
    /\ Len(last.pre.timers) = 2
    /\ DistinctIds(last.pre.timers)
    /\ ExpiredAt(last.pre.timers, last.pre.now) = {1, 2}
    /\ active_timers = <<last.pre.timers[2]>>

\* C3, as claimed: a tick on a collection with exactly one expired timer
\* removes it, keeps the others, and issues exactly one deletion request, for
\* its id.
C3_OneExpired ==
    (TickDone /\ Cardinality(ExpiredAt(last.pre.timers, last.pre.now)) = 1) =>
        LET i == Least(ExpiredAt(last.pre.timers, last.pre.now)) IN
        /\ active_timers = Without(last.pre.timers, i)
        /\ DeleteRequests = <<DeleteTask(last.pre.timers[i].id)>>

\* C3, amended: a tick on a collection with exactly one expired timer removes
\* it and keeps the others; it issues exactly one deletion request, for its
\* id, when the database is available and none when it is not initialized.
C3_Amended ==
    (TickDone /\ Cardinality(ExpiredAt(last.pre.timers, last.pre.now)) = 1) =>
        LET i == Least(ExpiredAt(last.pre.timers, last.pre.now)) IN
        /\ active_timers = Without(last.pre.timers, i)
        /\ DeleteRequests = IF last.pre.database
                            THEN <<DeleteTask(last.pre.timers[i].id)>>
                            ELSE <<>>

\* C3 witness: one expired timer beside a running one, database available.
C3_Witness ==
    /\ TickDone
    /\ last.pre.database
    /\ Len(last.pre.timers) = 2
    /\ Cardinality(ExpiredAt(last.pre.timers, last.pre.now)) = 1
    /\ Len(active_timers) = 1
    /\ Len(DeleteRequests) = 1

\* The ids of the collection.
Ids(timers) == {timers[i].id : i \in 1..Len(timers)}

\* The timers that were expired when the current run of ticks began, and
\* those of them still in the collection.
RunExpired == ExpiredIds(run.start, now)

RunRemaining == RunExpired \cap Ids(active_timers)

Max0(n) == IF n < 0 THEN 0 ELSE n

\* After j ticks of a run that began with K expired timers, K - j of them
\* remain, and from the K-th tick on each has had its effect dispatched and
\* its deletion requested.
RetiredOnePerTick ==
    /\ Cardinality(RunRemaining) = Max0(Cardinality(RunExpired) - run.n)
    /\ run.n >= Cardinality(RunExpired) =>
          /\ Len(run.effects) = Cardinality(RunExpired)
          /\ {run.deletes[i] : i \in 1..Len(run.deletes)} = RunExpired
          /\ Len(run.deletes) = Cardinality(RunExpired)

\* C4, as claimed: K timers expired at the same time are retired one per tick
\* over K consecutive ticks; after j <= K ticks K - j of them remain and after
\* K ticks each has had its effect dispatched and its deletion requested.
C4_OnePerTick == run.n >= 1 => RetiredOnePerTick

\* C4, amended: with the database available, K timers (K ids) expired at the
\* same time are retired one per tick over K consecutive ticks; after j <= K
\* ticks K - j of them remain and after K ticks each has had its effect
\* dispatched and its deletion requested.
C4_Amended == (run.n >= 1 /\ database) => RetiredOnePerTick

\* C4 witness: two timers expired together, gone after the second tick of the
\* run, one effect and one deletion request each.
C4_Witness ==
    /\ database
    /\ run.n = 2
    /\ Cardinality(RunExpired) = 2
    /\ RunRemaining = {}
    /\ Len(run.effects) = 2
    /\ Len(run.deletes) = 2

\* C5: a tick on a collection with no expired timer dispatches no effect,
\* issues no task, and leaves the collection, the inhibitor slot and the
\* database handle as they were.
C5_NoExpiredNoChange ==
    (TickDone /\ ExpiredAt(last.pre.timers, last.pre.now) = {}) =>
        /\ last.effects = <<>>
        /\ last.issued = <<>>
        /\ active_timers = last.pre.timers
        /\ suspend_inhibitor = last.pre.inhibitor
        /\ database = last.pre.database

\* C5 witness: a tick over a running timer while a lease is held.
C5_Witness ==
    /\ TickDone
    /\ last.pre.timers # <<>>
    /\ ExpiredAt(last.pre.timers, last.pre.now) = {}
    /\ last.pre.inhibitor # <<>>
    /\ last.pre.database

\* C6: with the database not initialized, a tick dispatches the effect of
\* every expired timer it finds (one effect per expired entry), removes them
\* from the collection, keeps the running ones in order, and issues no
\* deletion request.
C6_NoDatabaseNoDelete ==
    (/\ TickDone
     /\ ~last.pre.database
     /\ ExpiredAt(last.pre.timers, last.pre.now) # {}) =>
        /\ Len(last.effects) = Cardinality(ExpiredAt(last.pre.timers, last.pre.now))
        /\ active_timers = SelectSeq(last.pre.timers,
                                     LAMBDA t : ~Expired(t, last.pre.now))
        /\ DeleteRequests = <<>>
        /\ \A i \in 1..Len(last.issued) : last.issued[i].k = "Msg"

\* C6 witness: an expired timer retired with no database.
C6_Witness ==
    /\ TickDone
    /\ ~last.pre.database
    /\ ExpiredAt(last.pre.timers, last.pre.now) # {}
    /\ Len(active_timers) < Len(last.pre.timers)
    /\ Len(last.effects) >= 1

\* The TimerType a description stands for: one of the four reserved kinds, or
\* UserDefined(text).
ReservedTypes == {Suspend, Logout, Shutdown, Reboot}

TypeOf(description) ==
    IF \E t \in ReservedTypes : as_str(t) = description
    THEN CHOOSE t \in ReservedTypes : as_str(t) = description
    ELSE UserDefined(description)

\* The effect that matches a TimerType.
MatchingEffect(type) ==
    CASE type.tag = "Suspend" -> Effect("PowerMessage", "ExecuteSuspend", "")
      [] type.tag = "Logout" -> Effect("PowerMessage", "ExecuteLogout", "")
      [] type.tag = "Shutdown" -> Effect("PowerMessage", "ExecuteShutdown", "")
      [] type.tag = "Reboot" -> Effect("PowerMessage", "ExecuteReboot", "")
      [] type.tag = "UserDefined" -> Effect("Notification", "Timer Finished", type.text)

\* The logind request that carries out a power message.
MatchingRequest(msg) ==
    CASE msg = "ExecuteSuspend" -> "Suspend"
      [] msg = "ExecuteShutdown" -> "PowerOff"
      [] msg = "ExecuteLogout" -> "TerminateSession"
      [] msg = "ExecuteReboot" -> "Reboot"

\* The expired entries the last tick went through, in order: the first one
\* when it stopped there, all of them otherwise.
Retired ==
    LET expired == SelectSeq(last.pre.timers, LAMBDA t : Expired(t, last.pre.now))
    IN IF last.pre.database /\ expired # <<>> THEN <<Head(expired)>> ELSE expired

\* C7: every expired timer a tick retires gets exactly one effect, the one
\* that matches its TimerType: a power message for Suspend, Shutdown, Logout
\* and Reboot, which update() turns into the suspend, power-off,
\* terminate-session and reboot request, and for UserDefined(text) one
\* notification with that text and no power message.
C7_EffectMatchesType ==
    /\ TickDone =>
          /\ Len(last.effects) = Len(Retired)
          /\ \A i \in 1..Len(Retired) :
                last.effects[i] = MatchingEffect(TypeOf(Retired[i].description))
          /\ last.issued = EffectTasks(last.effects) \o DeleteRequests
    /\ last.op = "Execute" =>
          /\ Len(last.effects) = 1
          /\ last.effects[1].kind = "BackendCall"
          /\ last.effects[1].what = MatchingRequest(last.msg.msg)

\* C8: at most one inhibitor lease is live (granted by logind and not yet
\* released), whether it sits in the slot or in a completion not yet handled.
C8_AtMostOneLease == Cardinality(leases) <= 1

\* C9: ToggleStayAwake with a lease held releases it, leaves the slot empty
\* and issues no acquisition; with no lease held it issues exactly one
\* acquisition, and the slot stays empty until the completion of that
\* acquisition is handled, that is, as long as an acquisition is pending.
C9_ToggleOneOfTwo ==
    /\ (last.op = "ToggleStayAwake" /\ last.pre.inhibitor # <<>>) =>
          /\ suspend_inhibitor = <<>>
          /\ last.pre.inhibitor[1] \notin leases
          /\ last.issued = <<>>
    /\ (last.op = "ToggleStayAwake" /\ last.pre.inhibitor = <<>>) =>
          /\ suspend_inhibitor = <<>>
          /\ last.issued = <<AcquireTask>>
    /\ Pending(inflight) # {} => suspend_inhibitor = <<>>

ToggleMsgs(S) == {t \in S : t.k = "Msg" /\ t.msg = "ToggleStayAwake"}

\* C10: a ToggleStayAwake handled with no lease held while an acquisition is
\* pending issues one more acquisition, and every InhibitAcquired is applied
\* when it is handled: Ok(file) puts the file in the slot whatever the slot
\* held, Err leaves the slot as it was.
C10_SecondToggleNotGuarded ==
    /\ (/\ last.op = "ToggleStayAwake"
        /\ last.pre.inhibitor = <<>>
        /\ last.pre.pending >= 1) =>
          /\ last.issued = <<AcquireTask>>
          /\ Cardinality(Pending(inflight)) = last.pre.pending + 1
    /\ last.op = "InhibitAcquired" =>
          suspend_inhibitor = IF last.msg.ok THEN last.msg.lease
                              ELSE last.pre.inhibitor

\* C10 witness: two toggles from the idle applet, everything they started
\* handled, and a lease in the slot; the completion handled last found the
\* slot already holding the lease of the other acquisition.
C10_Witness ==
    /\ toggles = 2
    /\ ToggleMsgs(inflight) = {}
    /\ Pending(inflight) = {}
    /\ suspend_inhibitor # <<>>
    /\ last.op = "InhibitAcquired"
    /\ last.msg.ok
    /\ last.pre.inhibitor # <<>>

\* The timers whose effect the last tick dispatched have left the collection.
DispatchedGone == \A i \in 1..Len(Retired) : Retired[i].id \notin Ids(active_timers)

\* The deletions the last tick requested for the timers it dispatched.
DispatchedDeletes == {Retired[i].id : i \in 1..Len(Retired)}

\* Handling a power message runs the power operation and nothing else,
\* whether logind accepts the call or not.
ExecuteChangesNothing ==
    last.op = "Execute" =>
        /\ active_timers = last.pre.timers
        /\ suspend_inhibitor = last.pre.inhibitor
        /\ database = last.pre.database
        /\ last.issued = <<>>

\* C11, as claimed: a failing power operation or notification changes neither
\* the collection nor the inhibitor slot nor the deletions requested; the
\* timer behind the effect left the collection and had its deletion requested
\* in the tick that dispatched the effect, whatever the outcome.
C11_FailureChangesNothing ==
    /\ ExecuteChangesNothing
    /\ TickDone =>
          /\ DispatchedGone
          /\ {DeleteRequests[i].id : i \in 1..Len(DeleteRequests)} = DispatchedDeletes

\* C11, amended: a failing power operation or notification changes neither the
\* collection nor the inhibitor slot nor the deletions requested; the timer
\* behind the effect left the collection in the tick that dispatched the
\* effect, whatever the outcome, and that tick requested its deletion if the
\* database was available and requested none if it was not.
C11_Amended ==
    /\ ExecuteChangesNothing
    /\ TickDone =>
          /\ DispatchedGone
          /\ {DeleteRequests[i].id : i \in 1..Len(DeleteRequests)} =
                IF last.pre.database THEN DispatchedDeletes ELSE {}

\* C11 witness: a power operation that logind refused, handled with the
\* database available and a timer still running.
C11_Witness ==
    /\ last.op = "Execute"
    /\ last.effects[1].body = "Err"
    /\ last.pre.database
    /\ active_timers # <<>>

\* C12: handling Created(Ok(t)) appends t at the end of the collection and
\* keeps every existing entry and the order; handling Created(Err) leaves the
\* collection as it was.
C12_CreatedAppends ==
    last.op = "Created" =>
        IF last.msg.ok
        THEN /\ Len(active_timers) = Len(last.pre.timers) + 1
             /\ active_timers[Len(active_timers)] = last.msg.timer[1]
             /\ SubSeq(active_timers, 1, Len(last.pre.timers)) = last.pre.timers
        ELSE active_timers = last.pre.timers

\* C12 witness: a creation result appended behind a timer already there.
C12_Witness ==
    /\ last.op = "Created"
    /\ last.msg.ok
    /\ last.pre.timers # <<>>
    /\ last.msg.timer[1] # last.pre.timers[1]
    /\ active_timers = Append(last.pre.timers, last.msg.timer[1])

\* A completion that carries an error was handled last.
ErrorHandled ==
    /\ last.op \in {"ActiveFetched", "InhibitAcquired", "Database"}
    /\ ~last.msg.ok

\* C13: handling ActiveFetched(Err), InhibitAcquired(Err) or
\* FailedToInitialize changes none of the collection, the inhibitor slot and
\* the database handle, and takes no further action.
C13_ErrorsChangeNothing ==
    ErrorHandled =>
        /\ active_timers = last.pre.timers
        /\ suspend_inhibitor = last.pre.inhibitor
        /\ database = last.pre.database
        /\ popup = last.pre.popup
        /\ last.effects = <<>>
        /\ last.issued = <<>>

\* C13 witness: an acquisition failed while the lease of another one was held.
C13_Witness ==
    /\ last.op = "InhibitAcquired"
    /\ ~last.msg.ok
    /\ last.pre.inhibitor # <<>>
    /\ suspend_inhibitor = last.pre.inhibitor

\* C14: a timer that a tick removed from the collection is in the end absent
\* from the store: once the database is available, the deletion the tick
\* asked for has run and nothing is left to run, the store has no row of it.
C14_StoreCaughtUp ==
    (last.op = "DeleteTask" /\ database /\ inflight = {}) =>
        \A r \in store : r.id # last.msg.id

\* The timer made by the last call of Timer::new, and the call's arguments.
Made == last.effects[1]

MadeAt == last.pre.now

MadeFor == last.msg.time

\* C15: is_active(t, now) is (now < t.ends_at); a timer made by Timer::new(d)
\* at t0 has ends_at = t0 + d, is active at every now in [t0, t0 + d) and
\* inactive at every now >= t0 + d.
C15_ActiveUntilEndsAt ==
    /\ last.op \in {"Timer::new", "is_active"} => Made.ends_at = MadeAt + MadeFor
    /\ last.op = "is_active" =>
          LET at == last.issued[1].at
              active == last.issued[1].active
          IN /\ active = (at < Made.ends_at)
             /\ (MadeAt <= at /\ at < MadeAt + MadeFor) => active
             /\ at >= MadeAt + MadeFor => ~active

\* C15 witness: is_active asked at the instant now = ends_at answers false.
C15_Witness ==
    /\ last.op = "is_active"
    /\ last.issued[1].at = Made.ends_at
    /\ ~last.issued[1].active
    /\ MadeFor >= 1

\* C16: a Timer made by Timer::new with a duration of at least one second has
\* ends_at > created_at, whatever a non-decreasing clock returns to the two
\* reads of the construction.
C16_EndsAfterCreated ==
    (last.op = "Timer::new" /\ MadeFor >= 1) => Made.ends_at > Made.created_at

ReservedStrings == {as_str(t) : t \in ReservedTypes}

\* C17: for Suspend, Logout, Shutdown and Reboot, the description of a Timer
\* made with that TimerType parses back to the same TimerType, and the four
\* reserved strings are pairwise distinct.
C17_ReservedRoundTrip ==
    /\ (last.op = "Timer::new" /\ last.msg.type \in ReservedTypes) =>
          /\ from_str(Made.description).ok
          /\ from_str(Made.description).type = last.msg.type
    /\ Cardinality(ReservedStrings) = 4

\* C18: from_str(s) is Ok for every s, gives UserDefined(s) exactly when s is
\* not a reserved constant, and as_str of what it gives is s.
C18_ClassificationTotal ==
    last.op = "from_str" =>
        LET s == last.msg.s
            r == last.effects[1]
        IN /\ r.ok
           /\ (r.type = UserDefined(s)) <=> (s \notin ReservedStrings)
           /\ r.type.tag = "UserDefined" <=> (s \notin ReservedStrings)
           /\ as_str(r.type) = s

\* C19: when a timer whose text equals a reserved constant expires, the tick
\* dispatches the power message of that constant and shows no notification
\* for it.
C19_ReservedTextIsPowerOperation ==
    TickDone =>
        /\ Len(last.effects) = Len(Retired)
        /\ \A i \in 1..Len(Retired) :
              Retired[i].description \in ReservedStrings =>
                 /\ last.effects[i].kind = "PowerMessage"
                 /\ last.effects[i] = MatchingEffect(TypeOf(Retired[i].description))

\* C20: handling ActiveFetched(Ok(ts)) makes the collection equal to ts,
\* element for element and in the order of ts.
C20_FetchedReplaces ==
    (last.op = "ActiveFetched" /\ last.msg.ok) =>
        /\ Len(active_timers) = Len(last.msg.timers)
        /\ \A i \in 1..Len(last.msg.timers) : active_timers[i] = last.msg.timers[i]

\* C20 witness: two timers fetched, later deadline first, over a collection
\* that held something else.
C20_Witness ==
    /\ last.op = "ActiveFetched"
    /\ last.msg.ok
    /\ last.pre.timers # <<>>
    /\ Len(last.msg.timers) = 2
    /\ last.msg.timers[1].ends_at > last.msg.timers[2].ends_at
    /\ last.pre.timers[1] # last.msg.timers[1]
    /\ active_timers = last.msg.timers

\* The fetch that ran last returned Ok.
FetchReturned == last.op = "FetchTask" /\ last.issued[1].ok

FetchResult == last.issued[1].timers

\* C21: get_all_active(now) returns exactly the stored timers with
\* ends_at > now, each once, ordered by ends_at ascending; a stored timer
\* whose deadline has passed is not in the result.
C21_FetchesActiveInOrder ==
    FetchReturned =>
        /\ {FetchResult[i] : i \in 1..Len(FetchResult)} = {r \in store : r.ends_at > now}
        /\ Len(FetchResult) = Cardinality({r \in store : r.ends_at > now})
        /\ \A i, j \in 1..Len(FetchResult) :
              i < j => FetchResult[i].ends_at <= FetchResult[j].ends_at
        /\ \A r \in store : r.ends_at <= now =>
              \A i \in 1..Len(FetchResult) : FetchResult[i] # r

\* C21 witness: a fetch returns two stored timers, the one inserted later
\* first because it ends sooner.
C21_Witness ==
    /\ FetchReturned
    /\ Len(FetchResult) = 2
    /\ FetchResult[1].id > FetchResult[2].id
    /\ FetchResult[1].ends_at < FetchResult[2].ends_at

\* The kinds of the tasks and messages the last step returned.
IssuedKinds == {last.issued[i].k : i \in 1..Len(last.issued)}

\* C22: handling SetSuspendTime, SetShutdownTime, SetLogoutTime or
\* SetRebootTime so that a timer is set (its insertion is issued) also issues
\* an inhibitor acquisition request to the backend.
C22_SetTimeAcquires ==
    (last.op = "SetTime" /\ "InsertTask" \in IssuedKinds) =>
        "AcquireTask" \in IssuedKinds

\* The follow-up messages of radio selections not yet handled.
FollowUps(S) == {t \in S : t.k = "Msg" /\ t.msg \in {"ToggleStayAwake", "ClosePopup"}}

\* The stay-awake option was the one selected last, and its two follow-up
\* messages are handled.
StayAwakeSelectionHandled ==
    /\ last.op \in {"ToggleStayAwake", "ClosePopup"}
    /\ selected \in {<<>>, <<StayAwakeIndex>>}
    /\ FollowUps(inflight) = {}

\* C23: every path documented as closing the popup leaves it closed: the
\* popup is absent after ClosePopup is handled, after create_power_timer has
\* run, and after both follow-up messages of a stay-awake radio selection are
\* handled, whatever the popup and the inhibitor slot were before.
C23_ClosingPathsClose ==
    /\ last.op = "ClosePopup" => ~popup
    /\ (last.op = "SetTime" /\ "InsertTask" \in IssuedKinds) => ~popup
    /\ StayAwakeSelectionHandled => ~popup

\* The form was submitted last, holding Submitted with Chosen selected.
FormSubmitted == last.op = "FormSubmitPressed"

Submitted == last.msg.form

Chosen == last.msg.selected

TimedChosen == Chosen # <<>> /\ from_index(Chosen[1]) # "StayAwake"

\* C24: with input accepted by validate_input and a timed operation
\* selected, handle_form_submit emits exactly one Set<Operation>Time(v) for
\* the selected operation, where v is the product of the input and the unit
\* multiplier, positive and within i32; with invalid input it emits nothing
\* and clears the form.
C24_ExactDuration ==
    FormSubmitted =>
        IF validate_input(Submitted.input_value)
        THEN TimedChosen =>
                /\ ~last.effects[1].panic
                /\ Len(last.issued) = 1
                /\ last.issued[1].k = "SetTime"
                /\ last.issued[1].op = from_index(Chosen[1])
                /\ LET v == last.issued[1].time
                       multiplier == to_seconds_multiplier(Submitted.time_unit)
                   IN /\ v > 0 /\ v <= I32Max
                      /\ v % multiplier = 0
                      /\ v \div multiplier = ParseI32(Submitted.input_value).value
        ELSE /\ last.issued = <<>>
             /\ last.effects[1].form = [input_value |-> <<>>, time_unit |-> "Seconds"]

\* The entries the collection held before the last tick that the tick took
\* out, by position.
TakenOut == {i \in 1..Len(last.pre.timers) : last.pre.timers[i].id \notin Ids(active_timers)}

\* C25: no timer fires early: a tick takes a timer out of the collection,
\* and dispatches an effect for a timer, only when its current time is at or
\* past that timer's ends_at; the timers still running stay, in their order.
C25_NoEarlyFire ==
    TickDone =>
        /\ \A i \in TakenOut : last.pre.now >= last.pre.timers[i].ends_at
        /\ \A e \in 1..Len(last.effects) :
              \E i \in 1..Len(last.pre.timers) :
                 /\ last.pre.now >= last.pre.timers[i].ends_at
                 /\ TickEffect(last.pre.timers[i]) = <<last.effects[e]>>
        /\ Len(last.effects) <= Cardinality(ExpiredAt(last.pre.timers, last.pre.now))
        /\ SelectSeq(active_timers, LAMBDA t : last.pre.now < t.ends_at)
              = SelectSeq(last.pre.timers, LAMBDA t : last.pre.now < t.ends_at)

\* C25 witness: a tick at the very second a timer ends dispatches its effect
\* and takes it out, and leaves a timer that ends later where it was.
C25_Witness ==
    /\ TickDone
    /\ \E i \in TakenOut : last.pre.timers[i].ends_at = last.pre.now
    /\ Len(last.effects) = 1
    /\ active_timers # <<>>
    /\ \A j \in 1..Len(active_timers) : active_timers[j].ends_at > last.pre.now

\* The deletions of the row id asked for and not yet run.
DeletesPending(id) == {t \in inflight : t.k = "DeleteTask" /\ t.id = id}

\* C26: no timer id has its effect dispatched twice, however the ticks
\* interleave with the completions of the startup fetch and of the
\* insertions. A row is deleted, and its deletion asked for, only by a tick
\* that dispatched its timer: so a timer a tick dispatches still has its row
\* in the table, and the deletion this tick asks for is the only one under
\* way for it.
C26_DispatchedOnce ==
    TickDone =>
        \A i \in TakenOut :
            /\ \E r \in store : r.id = last.pre.timers[i].id
            /\ Cardinality(DeletesPending(last.pre.timers[i].id)) <= 1

\* The timers inserted since the applet started that the collection held
\* before the last step: each has had its Created(Ok) handled, or was read
\* back by the startup fetch.
CreatedBefore ==
    {i \in 1..Len(last.pre.timers) :
        \A rows \in InitStores \cup {{Stored2}} : last.pre.timers[i] \notin rows}

\* C27: no created timer is lost: a timer whose Created(Ok) has been handled
\* stays in the collection until a tick observes it expired, whatever the
\* order in which the Created and ActiveFetched completions are handled: the
\* only step that takes it out is a tick whose current time is at or past
\* its ends_at.
C27_CreatedStays ==
    \A i \in CreatedBefore :
        last.pre.timers[i].id \notin Ids(active_timers) =>
            /\ TickDone
            /\ last.pre.now >= last.pre.timers[i].ends_at

\* The leases carried by completions update() has not handled yet.
CarriedLeases == {t.lease[1] : t \in {c \in inflight : c.k = "InhibitAcquired" /\ c.ok}}

\* C28: no lease is orphaned: every lease granted and not yet released is
\* the one in the inhibitor slot or is carried by a completion not handled
\* yet, and a lease the slot held when it was overwritten is released.
C28_NoOrphanLease ==
    /\ leases = Held(suspend_inhibitor) \cup CarriedLeases
    /\ (last.op = "InhibitAcquired" /\ last.msg.ok /\ last.pre.inhibitor # <<>>) =>
          /\ suspend_inhibitor = last.msg.lease
          /\ last.pre.inhibitor[1] \notin leases

\* C28 witness: a second acquisition completes while the lease of the first
\* is in the slot; the slot takes the new lease and the old one is released.
C28_Witness ==
    /\ last.op = "InhibitAcquired"
    /\ last.msg.ok
    /\ last.pre.inhibitor # <<>>
    /\ last.pre.inhibitor # last.msg.lease
    /\ leases = {last.msg.lease[1]}

\* The tasks and results of the timers table in flight.
TableKinds == {"FetchTask", "InsertTask", "DeleteTask", "Created", "ActiveFetched"}

StayAwakeSettled == ToggleMsgs(inflight) = {} /\ Pending(inflight) = {}

\* C30: the stay-awake selection the page shows agrees with the lease: once
\* no acquisition is pending, the stay-awake option is selected if and only
\* if a lease is held, whatever the radio selections and the outcomes of the
\* acquisitions were; after switching from stay-awake to another option no
\* lease is held.
C30_SelectionMatchesLease ==
    StayAwakeSettled =>
        (selected = <<StayAwakeIndex>>) <=> (suspend_inhibitor # <<>>)

====
